---------------------------- MODULE Spec2Model ----------------------------
(***************************************************************************)
(* Model of the reactor dashboard state container (ReactorProvider) and of *)
(* the mock-data generator it is built on.                                 *)
(*                                                                         *)
(* Numbers.  The program computes with floating point values; the model    *)
(* uses fixed point integers in thousandths of the program's unit          *)
(* (35.8 degC is 35800, pH 7.4 is 7400, 70 % is 70000).  Products are      *)
(* divided back with a division that truncates toward zero.                *)
(*                                                                         *)
(* Randomness.  Math.random() and the seeded generator are inputs: every   *)
(* draw is taken from a small set of representative values.                *)
(*                                                                         *)
(* Time.  `now' is the value Date.now() returns to the handler that runs:  *)
(* every handler (a call of an operation, a timer callback) runs at a      *)
(* later millisecond than the one before it, and all readings inside one   *)
(* handler (one render pass) return the same value.  `uptime' is counted   *)
(* in ticks of 2 seconds (the program adds 2/3600 hours per tick).         *)
(*                                                                         *)
(* Reactors.  mockReactors holds three reactors built by the same          *)
(* function; the model keeps the first two.                                *)
(***************************************************************************)
EXTENDS Integers, Sequences, FiniteSets, TLC

VARIABLES
    reactors,            \* useState<Reactor[]>: sequence of reactor records
    selectedReactor,     \* useState<Reactor|null>: << >> or <<id>>
    isOptimizing,        \* useState(false)
    optimizationResult,  \* useState<OptimizationResult|null>: << >> or <<result>>
    completionTimers,    \* pending setTimeout(..., 3500) callbacks, oldest first
    clearTimers,         \* pending setTimeout(..., 5000) callbacks, oldest first
    now,                 \* Date.now() of the last handler that ran
    ticks,               \* number of interval firings since mount
    dashboardStats,      \* useState<DashboardStats>
    mounted,             \* the provider is mounted: its interval is running
    simulator,           \* a ReactorSimulator instance: metrics, config, times
    interval,            \* the setInterval timers of the effect: how many are
                         \* armed, the seconds elapsed of the current countdown,
                         \* the seconds since the last firing (or the mount)
    random               \* a SeededRandom instance: its seed, the number of
                         \* next() calls made, the u1 of the last gaussian()

vars == <<reactors, selectedReactor, isOptimizing, optimizationResult,
          completionTimers, clearTimers, now, ticks, dashboardStats, mounted,
          simulator, interval, random>>

-----------------------------------------------------------------------------
(* Bounds of the model *)

MaxTicks == 2
MaxClock == 3
MaxPending == 2
MaxClears == 1
MaxHistoryTicks == 290
MaxUpdates == 2
MaxReactors == 2
MaxWait == 3
MaxSeed == 2000
MaxDraws == 4

-----------------------------------------------------------------------------
(* Arithmetic helpers *)

Abs(x) == IF x < 0 THEN -x ELSE x

Max(a, b) == IF a >= b THEN a ELSE b

Min(a, b) == IF a <= b THEN a ELSE b

\* x * num / den, truncated toward zero
MulDiv(x, num, den) ==
    IF x >= 0 THEN (x * num) \div den ELSE -(((-x) * num) \div den)

\* (Math.random() - 0.5) * span, the draw d being (Math.random() - 0.5) in thousandths
Centered(d, span) == MulDiv(d, span, 1000)

\* the last n elements of s: s.slice(-n)
SliceLast(s, n) ==
    IF Len(s) <= n THEN s ELSE SubSeq(s, Len(s) - n + 1, Len(s))

\* the first n elements of s: s.slice(0, n)
SliceFirst(s, n) ==
    IF Len(s) <= n THEN s ELSE SubSeq(s, 1, n)

-----------------------------------------------------------------------------
(* Program constants *)

HistoryKeep == 287

AlertKeep == 4

AlertCap == 5

\* setInterval(..., 2000), in seconds
Period == 2

\* generateHistoricalData(id, 24, 5): pointsCount = (hours * 60) / intervalMinutes
PointsCount == (24 * 60) \div 5

DefaultConfig ==
    [targetTemperature |-> 35000, targetPH |-> 7400, targetPressure |-> 1200,
     targetFlowRate |-> 150000]

ReactorIds == <<"RXN-001", "RXN-002">>

ExistingIds == {ReactorIds[i] : i \in DOMAIN ReactorIds}

\* ids a caller may pass: the reactors' ids and one that matches no reactor
CallIds == {ReactorIds[i] : i \in DOMAIN ReactorIds} \cup {"RXN-404"}


-----------------------------------------------------------------------------
(* mockData: SeededRandom *)

\* new SeededRandom(seed)
NewRandom(seed) == [seed |-> seed, draws |-> 0, u1 |-> << >>]

\* next(): this.seed = (this.seed * 9301 + 49297) % 233280.  The product is
\* reduced in two parts (9301 = 9000 + 301) so that no intermediate value
\* passes 2^31; the result is the same integer.  The value returned is
\* this.seed / 233280, which is 0 exactly when the new seed is 0.
SeededNext(seed) ==
    (((seed * 9000) % 233280) + ((seed * 301) % 233280) + 49297) % 233280

\* gaussian(mean, stdDev): u1 = next(), u2 = next(); Math.log(u1) is finite
\* exactly when u1 > 0
RandomAfterGaussian(r) ==
    LET u1 == SeededNext(r.seed)
        u2 == SeededNext(u1)
    IN  [seed |-> u2, draws |-> r.draws + 2, u1 |-> <<u1>>]

\* range(min, max): one call of next()
RandomAfterRange(r) ==
    [r EXCEPT !.seed = SeededNext(r.seed), !.draws = r.draws + 1]

-----------------------------------------------------------------------------
(* mockData: seeded draws *)

\* What a SeededRandom seed determines for one createMockReactor call: the
\* gaussian deviates (already multiplied by their stdDev) and the range()
\* values the constructor draws, and whether the generated history makes the
\* temperature-stability rule of generateAlerts fire.  Deviates far in the
\* tail stand for the extreme values a gaussian deviate can take.  `ages' are
\* the amounts generateAlerts takes off the timestamp of each alert it pushes
\* (Math.random() * 3600000 and the like), in clock units; `confidence' is the
\* range(0, 0.1) value generateAIPredictions draws, in thousandths.
SeedNominal ==
    [gTemperature |-> 0, gPH |-> 0, gPressure |-> 0, gFlowRate |-> 0,
     gActivity |-> 0, substrateConcentration |-> 12000, productYield |-> 80000,
     dissolvedOxygen |-> 90000, runningTime |-> 43200, unstable |-> FALSE,
     ages |-> [ph |-> 0, enzyme |-> 0, temp |-> 0, success |-> 0],
     confidence |-> 40]

SeedWarning ==
    [gTemperature |-> 300, gPH |-> 350, gPressure |-> 0, gFlowRate |-> 5000,
     gActivity |-> 0, substrateConcentration |-> 12000, productYield |-> 80000,
     dissolvedOxygen |-> 90000, runningTime |-> 43200, unstable |-> FALSE,
     ages |-> [ph |-> 2, enzyme |-> 0, temp |-> 0, success |-> 0],
     confidence |-> 10]

SeedBusy ==
    [gTemperature |-> 0, gPH |-> 600, gPressure |-> 0, gFlowRate |-> 0,
     gActivity |-> -18000, substrateConcentration |-> 12000, productYield |-> 83000,
     dissolvedOxygen |-> 90000, runningTime |-> 43200, unstable |-> TRUE,
     ages |-> [ph |-> 3, enzyme |-> 1, temp |-> 2, success |-> 0],
     confidence |-> 90]

SeedWorn ==
    [gTemperature |-> 0, gPH |-> 0, gPressure |-> 0, gFlowRate |-> 0,
     gActivity |-> -22000, substrateConcentration |-> 12000, productYield |-> 80000,
     dissolvedOxygen |-> 90000, runningTime |-> 43200, unstable |-> FALSE,
     ages |-> [ph |-> 0, enzyme |-> 4, temp |-> 0, success |-> 0],
     confidence |-> 60]

\* the seeds of the reactors in mockReactors, in order: the assignments tried
MockSeeds == {<<SeedBusy, SeedNominal>>, <<SeedWorn, SeedWarning>>}

\* refreshReactor: seed = reactor.id.charCodeAt(0), the same for every id "RXN-..."
RefreshSeed == SeedWarning

-----------------------------------------------------------------------------
(* mockData: enzyme kinetics *)

\* exp(-x) in ten-thousandths, x in ten-thousandths (third order expansion)
ExpNeg(x) ==
    Max(0, 10000 - x + (x * x) \div 20000 - (((x * x) \div 20000) * x) \div 30000)

\* rate (per hour, in millionths) times hours (uptime in ticks of 2 s), in
\* ten-thousandths: rate/1e6 * uptime/1800 * 1e4
RateTimesHours(rate, uptime) == (rate * uptime) \div 180000

\* EnzymeKineticsModel.calculateActivity(hours, temperature, pH) + noise
CalculateActivity(uptime, temperature, pH, noise) ==
    LET tempFactor == IF temperature > 37000
                      THEN 1000 + MulDiv(temperature - 37000, 5, 100)
                      ELSE 1000
        pHDeviation == Abs(pH - 7400)
        pHFactor == 1000 + MulDiv(pHDeviation, 1, 10)
        effectiveRate == MulDiv(MulDiv(2000, tempFactor, 1000), pHFactor, 1000)
        activity == MulDiv(95000, ExpNeg(RateTimesHours(effectiveRate, uptime)), 10000)
    IN  Max(0, activity + noise)

-----------------------------------------------------------------------------
(* mockData: reactor construction *)

\* ReactorSimulator constructor: this.metrics
InitialMetrics(seed) ==
    [temperature |-> DefaultConfig.targetTemperature + seed.gTemperature,
     pH |-> DefaultConfig.targetPH + seed.gPH,
     pressure |-> DefaultConfig.targetPressure + seed.gPressure,
     flowRate |-> DefaultConfig.targetFlowRate + seed.gFlowRate,
     enzymeActivity |-> CalculateActivity(seed.runningTime,
                                          DefaultConfig.targetTemperature,
                                          DefaultConfig.targetPH, seed.gActivity),
     substrateConcentration |-> seed.substrateConcentration,
     productYield |-> seed.productYield,
     dissolvedOxygen |-> seed.dissolvedOxygen]

\* generateHistoricalData: pointsCount points, oldest first.  A history point is
\* kept as its ordinal in time: the generated points are 1 - pointsCount .. 0,
\* the point appended by the n-th interval firing is n.
GenerateHistoricalData == [i \in 1..PointsCount |-> i - PointsCount]

Alert(reactorId, kind, type, resolved, parameter, value, time, timestamp) ==
    [id |-> <<reactorId, kind, time>>, reactorId |-> reactorId, type |-> type,
     timestamp |-> timestamp, resolved |-> resolved, parameter |-> parameter,
     value |-> value]

\* a variant of GenerateAlerts whose thresholds are inclusive
GenerateAlertsInclusive(reactorId, metrics, history, unstable, ages, time) ==
    (IF Abs(metrics.pH - 7400) >= 300
     THEN <<Alert(reactorId, "ph",
                  IF Abs(metrics.pH - 7400) >= 500 THEN "critical" ELSE "warning",
                  FALSE, "pH", metrics.pH, time, time - ages.ph)>>
     ELSE << >>)
    \o (IF metrics.enzymeActivity <= 75000
        THEN <<Alert(reactorId, "enzyme",
                     IF metrics.enzymeActivity <= 70000 THEN "critical" ELSE "warning",
                     FALSE, "enzymeActivity", metrics.enzymeActivity, time,
                     time - ages.enzyme)>>
        ELSE << >>)
    \o (IF Len(history) >= 10 /\ unstable
        THEN <<Alert(reactorId, "temp", "info", TRUE, "temperature",
                     metrics.temperature, time, time - ages.temp)>>
        ELSE << >>)
    \o (IF metrics.productYield >= 82000
        THEN <<Alert(reactorId, "success", "success", TRUE, "productYield",
                     metrics.productYield, time, time - ages.success)>>
        ELSE << >>)

\* generateAlerts(reactorId, metrics, history)
GenerateAlerts(reactorId, metrics, history, unstable, ages, time) ==
    LET phAlert ==
            IF Abs(metrics.pH - 7400) > 300
            THEN <<Alert(reactorId, "ph",
                         IF Abs(metrics.pH - 7400) > 500 THEN "critical" ELSE "warning",
                         FALSE, "pH", metrics.pH, time, time - ages.ph)>>
            ELSE << >>
        enzymeAlert ==
            IF metrics.enzymeActivity < 75000
            THEN <<Alert(reactorId, "enzyme",
                         IF metrics.enzymeActivity < 70000 THEN "critical" ELSE "warning",
                         FALSE, "enzymeActivity", metrics.enzymeActivity, time,
                         time - ages.enzyme)>>
            ELSE << >>
        tempAlert ==
            IF Len(history) >= 10 /\ unstable
            THEN <<Alert(reactorId, "temp", "info", TRUE, "temperature",
                         metrics.temperature, time, time - ages.temp)>>
            ELSE << >>
        successAlert ==
            IF metrics.productYield > 82000
            THEN <<Alert(reactorId, "success", "success", TRUE, "productYield",
                         metrics.productYield, time, time - ages.success)>>
            ELSE << >>
    IN  SliceFirst(phAlert \o enzymeAlert \o tempAlert \o successAlert, AlertCap)

-----------------------------------------------------------------------------
(* mockData: predictions *)

\* Math.log(a / b) in ten-thousandths, for a > b > 0:
\* 2 * (y + y^3 / 3) with y = (a - b) / (a + b)
LogRatio(a, b) ==
    LET y == ((a - b) * 10000) \div (a + b)
        y3 == (((y * y) \div 10000) * y) \div 10000
    IN  2 * (y + y3 \div 3)

\* Math.max(0, Math.log(currentActivity / 70) / 0.002), in thousandths of an hour
HoursRemaining(currentActivity) ==
    IF currentActivity <= 70000 THEN 0 ELSE LogRatio(currentActivity, 70000) * 50

OptimizedTemp == 35800

OptimizedPH == 7350

OptimizedFlow == 165000

\* generateAIPredictions: the recommendations list
Recommendations(metrics) ==
    LET tempDelta == Abs(metrics.temperature - OptimizedTemp)
        pHDelta == Abs(metrics.pH - OptimizedPH)
        flowDelta == Abs(metrics.flowRate - OptimizedFlow)
    IN  (IF tempDelta > 500
         THEN <<[parameter |-> "temperature", currentValue |-> metrics.temperature,
                 suggestedValue |-> OptimizedTemp,
                 priority |-> IF tempDelta > 1000 THEN "high" ELSE "medium"]>>
         ELSE << >>)
        \o (IF pHDelta > 100
            THEN <<[parameter |-> "pH", currentValue |-> metrics.pH,
                    suggestedValue |-> OptimizedPH,
                    priority |-> IF pHDelta > 300 THEN "high" ELSE "medium"]>>
            ELSE << >>)
        \o (IF flowDelta > 10000
            THEN <<[parameter |-> "flowRate", currentValue |-> metrics.flowRate,
                    suggestedValue |-> OptimizedFlow, priority |-> "low"]>>
            ELSE << >>)

\* generateAIPredictions: yieldOptimization
YieldOptimization(metrics) ==
    LET tempDelta == Abs(metrics.temperature - OptimizedTemp)
        pHDelta == Abs(metrics.pH - OptimizedPH)
        flowDelta == Abs(metrics.flowRate - OptimizedFlow)
        potentialGain == tempDelta * 2 + pHDelta * 15 + MulDiv(flowDelta, 5, 100)
        predictedYield == Min(95000, metrics.productYield + potentialGain)
    IN  [currentYield |-> metrics.productYield,
         predictedYield |-> predictedYield,
         recommendedChanges |-> Recommendations(metrics)]

\* generateAIPredictions: anomalyDetection
AnomalyDetection(metrics) ==
    LET tempDelta == Abs(metrics.temperature - OptimizedTemp)
        pHDelta == Abs(metrics.pH - OptimizedPH)
        anomalyScore ==
            Max(0, Min(1000, tempDelta \div 5 + pHDelta \div 2
                                 + (100000 - metrics.enzymeActivity) \div 100))
    IN  [score |-> anomalyScore, flagged |-> anomalyScore > 300]

\* generateAIPredictions(metrics, history, runningTime)
GenerateAIPredictions(metrics, confidence) ==
    [enzymeDeactivation |->
         [hoursRemaining |-> HoursRemaining(metrics.enzymeActivity),
          confidence |-> 870 + confidence,
          suggestedAction |->
              IF metrics.enzymeActivity < 80000
              THEN "Consider enzyme replenishment or batch termination"
              ELSE "undefined"],
     yieldOptimization |-> YieldOptimization(metrics),
     anomalyDetection |-> AnomalyDetection(metrics)]

\* createMockReactor(id, name, location, seed)
CreateMockReactor(id, seed, time) ==
    LET currentMetrics == InitialMetrics(seed)
        history == GenerateHistoricalData
        alerts == GenerateAlerts(id, currentMetrics, history, seed.unstable,
                                 seed.ages, time)
        status == IF currentMetrics.enzymeActivity < 70000 THEN "maintenance"
                  ELSE IF \E i \in DOMAIN alerts : alerts[i].type = "critical"
                       THEN "error" ELSE "running"
    IN  [id |-> id, status |-> status, currentMetrics |-> currentMetrics,
         history |-> history, alerts |-> alerts,
         predictions |-> GenerateAIPredictions(currentMetrics, seed.confidence),
         config |-> DefaultConfig, uptime |-> seed.runningTime]

-----------------------------------------------------------------------------
(* Floating point values; mockData: dashboard statistics *)

\* A floating point value that need not be finite: a finite number (in
\* thousandths), or one of the values IEEE 754 gives for a zero divisor and
\* for Math.log(0) (0/0 is NaN, x/0 is Infinity for x > 0).
Finite(v) == [kind |-> "finite", v |-> v]

NaN == [kind |-> "NaN", v |-> 0]

Infinity == [kind |-> "Infinity", v |-> 0]

NegInfinity == [kind |-> "-Infinity", v |-> 0]

\* -a
XNeg(a) ==
    CASE a.kind = "finite" -> Finite(-a.v)
      [] a.kind = "Infinity" -> NegInfinity
      [] a.kind = "-Infinity" -> Infinity
      [] OTHER -> NaN

\* a + b
XAdd(a, b) ==
    IF a.kind = "NaN" \/ b.kind = "NaN" THEN NaN
    ELSE IF a.kind = "finite" THEN (IF b.kind = "finite" THEN Finite(a.v + b.v) ELSE b)
    ELSE IF b.kind = "finite" \/ b.kind = a.kind THEN a
    ELSE NaN

\* a * num / den for constants num, den > 0
XScale(a, num, den) ==
    IF a.kind = "finite" THEN Finite(MulDiv(a.v, num, den)) ELSE a

\* -1, 0 or 1
XSign(a) ==
    CASE a.kind = "finite" -> (IF a.v > 0 THEN 1 ELSE IF a.v < 0 THEN -1 ELSE 0)
      [] a.kind = "Infinity" -> 1
      [] OTHER -> -1

\* a * b / den for a constant den > 0
XMul(a, b, den) ==
    IF a.kind = "NaN" \/ b.kind = "NaN" THEN NaN
    ELSE IF a.kind = "finite" /\ b.kind = "finite" THEN Finite(MulDiv(a.v, b.v, den))
    ELSE IF XSign(a) * XSign(b) = 0 THEN NaN
    ELSE IF XSign(a) * XSign(b) > 0 THEN Infinity
    ELSE NegInfinity

\* a <= b, for values other than NaN
XLeq(a, b) ==
    \/ a.kind = "-Infinity"
    \/ b.kind = "Infinity"
    \/ a.kind = "finite" /\ b.kind = "finite" /\ a.v <= b.v

\* Math.max(a, b)
XMax(a, b) ==
    IF a.kind = "NaN" \/ b.kind = "NaN" THEN NaN
    ELSE IF XLeq(a, b) THEN b ELSE a

\* Math.min(a, b)
XMin(a, b) ==
    IF a.kind = "NaN" \/ b.kind = "NaN" THEN NaN
    ELSE IF XLeq(a, b) THEN a ELSE b

\* sum / n
Quotient(sum, n) ==
    IF n # 0 THEN Finite(sum \div n)
    ELSE IF sum = 0 THEN NaN ELSE Infinity

\* (a / n) * 100
Percentage(a, n) ==
    IF n # 0 THEN Finite((a * 100000) \div n)
    ELSE IF a = 0 THEN NaN ELSE Infinity

\* values.reduce((sum, v) => sum + v, 0)
RECURSIVE Sum(_)
Sum(values) == IF values = << >> THEN 0 ELSE Head(values) + Sum(Tail(values))

\* a variant of GenerateDashboardStats whose dailyProduction and activeReactors
\* take every reactor, whatever its status
GenerateDashboardStatsAnyStatus(rs) ==
    [totalReactors |-> Len(rs),
     activeReactors |-> Len(rs),
     averageYield |->
         Quotient(Sum([i \in DOMAIN rs |-> rs[i].currentMetrics.productYield]), Len(rs)),
     totalAlerts |-> Sum([i \in DOMAIN rs |-> Len(rs[i].alerts)]),
     criticalAlerts |->
         Sum([i \in DOMAIN rs |->
                 Cardinality({k \in DOMAIN rs[i].alerts :
                                 /\ rs[i].alerts[k].type = "critical"
                                 /\ ~rs[i].alerts[k].resolved})]),
     systemHealth |->
         Quotient(Sum([i \in DOMAIN rs |-> rs[i].currentMetrics.enzymeActivity]), Len(rs)),
     dailyProduction |->
         Sum([i \in DOMAIN rs |-> MulDiv(rs[i].currentMetrics.productYield, 5, 10)]),
     uptime |-> Percentage(Len(rs), Len(rs))]

\* generateDashboardStats(reactors)
GenerateDashboardStats(rs) ==
    LET active == [i \in DOMAIN rs |->
                      IF rs[i].status \in {"running", "optimizing"} THEN 1 ELSE 0]
        yields == [i \in DOMAIN rs |-> rs[i].currentMetrics.productYield]
        activities == [i \in DOMAIN rs |-> rs[i].currentMetrics.enzymeActivity]
        alertCounts == [i \in DOMAIN rs |-> Len(rs[i].alerts)]
        criticalCounts ==
            [i \in DOMAIN rs |->
                Cardinality({k \in DOMAIN rs[i].alerts :
                                /\ rs[i].alerts[k].type = "critical"
                                /\ ~rs[i].alerts[k].resolved})]
        productions == [i \in DOMAIN rs |->
                           IF rs[i].status = "running"
                           THEN MulDiv(rs[i].currentMetrics.productYield, 5, 10)
                           ELSE 0]
        activeReactors == Sum(active)
    IN  [totalReactors |-> Len(rs),
         activeReactors |-> activeReactors,
         averageYield |-> Quotient(Sum(yields), Len(rs)),
         totalAlerts |-> Sum(alertCounts),
         criticalAlerts |-> Sum(criticalCounts),
         systemHealth |-> Quotient(Sum(activities), Len(rs)),
         dailyProduction |-> Sum(productions),
         uptime |-> Percentage(activeReactors, Len(rs))]

-----------------------------------------------------------------------------
(* mockData: ReactorSimulator *)

\* new ReactorSimulator(reactorId, seed).  Times are in seconds (update adds
\* 1 / 3600 hours), startTime relative to the construction.  The metrics that
\* depend on the enzyme model's noise are floating point values that need not
\* be finite.
NewSimulator(seed) ==
    LET m == InitialMetrics(seed)
    IN  [metrics |-> [m EXCEPT
                         !.enzymeActivity = Finite(m.enzymeActivity),
                         !.substrateConcentration = Finite(m.substrateConcentration),
                         !.productYield = Finite(m.productYield)],
         config |-> DefaultConfig,
         startTime |-> -(2 * seed.runningTime),
         runningTime |-> 2 * seed.runningTime]

\* The values of this.random.gaussian(0, stdDev) drawn by one update, in
\* thousandths.  With u1 = 1 / 233280, the smallest positive value of next(),
\* the deviate is 4.97 standard deviations; with u1 = 0, a value next() can
\* return, Math.log(u1) is -Infinity and the deviate is infinite, positive
\* with the u2 that follows (cos(2 * PI * 49297 / 233280) > 0).
GaussLow ==
    [temperature |-> -248, pH |-> -99, pressure |-> -49, flowRate |-> -9943,
     enzymeActivity |-> Finite(-2485), substrateConcentration |-> -497,
     productYield |-> -2485, dissolvedOxygen |-> -4971]

GaussHigh ==
    [temperature |-> 248, pH |-> 99, pressure |-> 49, flowRate |-> 9943,
     enzymeActivity |-> Finite(2485), substrateConcentration |-> 497,
     productYield |-> 2485, dissolvedOxygen |-> 4971]

GaussLogZero ==
    [temperature |-> 0, pH |-> 0, pressure |-> 0, flowRate |-> 0,
     enzymeActivity |-> Infinity, substrateConcentration |-> 0,
     productYield |-> 0, dissolvedOxygen |-> 0]

SimulatorDraws == {GaussLow, GaussHigh, GaussLogZero}

\* ReactorSimulator.update(), with the gaussian values g
SimulatorStep(sim, g) ==
    LET m == sim.metrics
        runningTime == sim.runningTime + 1
        temperature == m.temperature
                           + MulDiv(sim.config.targetTemperature - m.temperature, 2, 100)
                           + g.temperature
        pH == m.pH + MulDiv(sim.config.targetPH - m.pH, 1, 100) + g.pH
        targetPressure == 1000 + MulDiv(m.flowRate, 4, 2000)
        pressure == m.pressure + MulDiv(targetPressure - m.pressure, 5, 100)
                        + g.pressure
        flowRate == Max(0, m.flowRate + g.flowRate)
        enzymeActivity ==
            XMax(Finite(0),
                 XAdd(Finite(CalculateActivity(runningTime \div 2, temperature, pH, 0)),
                      g.enzymeActivity))
        consumptionRate == XMul(XScale(enzymeActivity, 5, 1000), Finite(flowRate), 150000)
        substrateConcentration ==
            XMax(Finite(5000),
                 XAdd(XAdd(m.substrateConcentration, XNeg(XScale(consumptionRate, 1, 1000))),
                      Finite(g.substrateConcentration)))
        theoreticalYield ==
            XMul(XScale(enzymeActivity, 90, 100), substrateConcentration, 15000)
        productYield ==
            XMax(Finite(0),
                 XMin(Finite(100000),
                      XAdd(XAdd(m.productYield,
                                XScale(XAdd(theoreticalYield, XNeg(m.productYield)),
                                       5, 100)),
                           Finite(g.productYield))))
        dissolvedOxygen ==
            Max(70000, Min(100000, m.dissolvedOxygen + g.dissolvedOxygen))
    IN  [sim EXCEPT
            !.runningTime = runningTime,
            !.metrics = [temperature |-> temperature, pH |-> pH, pressure |-> pressure,
                         flowRate |-> flowRate, enzymeActivity |-> enzymeActivity,
                         substrateConcentration |-> substrateConcentration,
                         productYield |-> productYield,
                         dissolvedOxygen |-> dissolvedOxygen]]

\* ReactorSimulator.adjustParameter(param, value)
SimulatorAdjusted(sim, param, value) ==
    IF param = "temperature" THEN [sim EXCEPT !.config.targetTemperature = value]
    ELSE IF param = "pH" THEN [sim EXCEPT !.config.targetPH = value]
    ELSE IF param = "flowRate" THEN [sim EXCEPT !.metrics.flowRate = value]
    ELSE sim

-----------------------------------------------------------------------------
(* ReactorProvider: initial state *)

\* the state of the provider after its first render
InitProvider ==
    /\ \E seeds \in MockSeeds :
          reactors = [i \in DOMAIN ReactorIds |->
                         CreateMockReactor(ReactorIds[i], seeds[i], 0)]
    /\ selectedReactor = << >>
    /\ isOptimizing = FALSE
    /\ optimizationResult = << >>
    /\ completionTimers = << >>
    /\ clearTimers = << >>
    /\ now = 0
    /\ ticks = 0
    /\ dashboardStats = GenerateDashboardStats(reactors)
    /\ mounted = TRUE
    /\ interval = [armed |-> 1, elapsed |-> 0, sinceTick |-> 0]

\* the seed of the first reactor of mockReactors
MockSeed == 12345

Init ==
    /\ InitProvider
    /\ simulator = NewSimulator(SeedNominal)
    /\ random = NewRandom(MockSeed)

-----------------------------------------------------------------------------
(* ReactorProvider: the interval effect *)

\* a variant of Rearm whose cleanup clears nothing
RearmNoCleanup(iv) == [iv EXCEPT !.armed = iv.armed + 1, !.elapsed = 0]

\* a re-run of the effect: the cleanup of the previous run (clearInterval),
\* then the body (setInterval), whose countdown starts from zero
Rearm(iv) == [iv EXCEPT !.armed = (iv.armed - 1) + 1, !.elapsed = 0]

\* useEffect(..., [isOptimizing, selectedReactor]): the effect runs again
\* after a render of the mounted provider in which a dependency has changed
EffectRun(iv, depsChanged) == IF mounted /\ depsChanged THEN Rearm(iv) ELSE iv

-----------------------------------------------------------------------------
(* ReactorProvider: the interval callback *)

\* One value of (Math.random() - 0.5), in thousandths, for every metric the
\* callback perturbs, and one value of Math.random() for the confidence.
DrawsLow ==
    [temperature |-> -500, pH |-> -500, pressure |-> -500, flowRate |-> -500,
     enzymeActivity |-> -500, substrateConcentration |-> -500,
     productYield |-> -500, dissolvedOxygen |-> -500,
     confidence |-> 0]

DrawsHigh ==
    [temperature |-> 499, pH |-> 499, pressure |-> 499, flowRate |-> 499,
     enzymeActivity |-> 499, substrateConcentration |-> 499,
     productYield |-> 499, dissolvedOxygen |-> 499,
     confidence |-> 999]

DrawsMid ==
    [temperature |-> 0, pH |-> 0, pressure |-> 0, flowRate |-> 0,
     enzymeActivity |-> 0, substrateConcentration |-> 0,
     productYield |-> 0, dissolvedOxygen |-> 0,
     confidence |-> 500]

TickDraws == {DrawsLow, DrawsHigh}

\* the drift laws of the callback, applied to one reactor's metrics
TickMetrics(reactor, d) ==
    LET m == reactor.currentMetrics
        tempError == reactor.config.targetTemperature - m.temperature
        temperature == m.temperature + MulDiv(tempError, 2, 100)
                           + Centered(d.temperature, 100)
        pHError == reactor.config.targetPH - m.pH
        pH == m.pH + MulDiv(pHError, 1, 100) + Centered(d.pH, 30)
        targetPressure == 1000 + MulDiv(m.flowRate, 4, 2000)
        pressureError == targetPressure - m.pressure
        pressure == m.pressure + MulDiv(pressureError, 5, 100)
                        + Centered(d.pressure, 20)
        flowRate == Max(100000, Min(200000, m.flowRate + Centered(d.flowRate, 3000)))
        enzymeActivity ==
            Max(60000, MulDiv(95000, ExpNeg(RateTimesHours(2000, reactor.uptime)), 10000)
                           + Centered(d.enzymeActivity, 500))
        consumptionRate == MulDiv(enzymeActivity, 5, 1000)
        substrateConcentration ==
            Max(5000, m.substrateConcentration - MulDiv(consumptionRate, 1, 1000)
                          + Centered(d.substrateConcentration, 200))
        theoreticalYield == MulDiv(enzymeActivity, 90, 100)
        yieldError == theoreticalYield - m.productYield
        productYield ==
            Max(60000, Min(95000, m.productYield + MulDiv(yieldError, 5, 100)
                                      + Centered(d.productYield, 500)))
        dissolvedOxygen ==
            Max(75000, Min(100000, m.dissolvedOxygen + Centered(d.dissolvedOxygen, 2000)))
    IN  [temperature |-> temperature, pH |-> pH, pressure |-> pressure,
         flowRate |-> flowRate, enzymeActivity |-> enzymeActivity,
         substrateConcentration |-> substrateConcentration,
         productYield |-> productYield, dissolvedOxygen |-> dissolvedOxygen]

HasUnresolvedCritical(alerts) ==
    \E i \in DOMAIN alerts : alerts[i].type = "critical" /\ ~alerts[i].resolved

\* "Update status based on metrics"
TickStatus(reactor, metrics, optimizing, selected) ==
    IF metrics.enzymeActivity < 70000 THEN "maintenance"
    ELSE IF HasUnresolvedCritical(reactor.alerts) THEN "error"
    ELSE IF optimizing /\ selected = <<reactor.id>> THEN "optimizing"
    ELSE "running"

\* a variant of TickHistory that keeps one point too many
TickHistoryOffByOne(history, point) ==
    SliceLast(history, HistoryKeep + 1) \o <<point>>

\* "Add to history (keep last 288 points)"
TickHistory(history, point) == SliceLast(history, HistoryKeep) \o <<point>>

\* "Update predictions": { ...reactor.predictions, enzymeDeactivation: {...} }
TickPredictions(predictions, metrics, d) ==
    [predictions EXCEPT
        !.enzymeDeactivation =
            [hoursRemaining |-> HoursRemaining(metrics.enzymeActivity),
             confidence |-> 870 + MulDiv(d.confidence, 100, 1000),
             suggestedAction |->
                 IF metrics.enzymeActivity < 80000
                 THEN "Consider enzyme replenishment"
                 ELSE "undefined"]]

\* the body of prevReactors.map in the interval callback
TickReactor(reactor, d, optimizing, selected, point) ==
    LET metrics == TickMetrics(reactor, d)
    IN  [reactor EXCEPT
            !.history = TickHistory(reactor.history, point),
            !.currentMetrics = metrics,
            !.uptime = reactor.uptime + 1,
            !.predictions = TickPredictions(reactor.predictions, metrics, d),
            !.status = TickStatus(reactor, metrics, optimizing, selected)]

\* setInterval callback, every 2 seconds
TickWith(draws, maxTicks) ==
    /\ mounted
    /\ ticks < maxTicks
    /\ \E d \in [DOMAIN reactors -> draws] :
          reactors' = [i \in DOMAIN reactors |->
                          TickReactor(reactors[i], d[i], isOptimizing,
                                      selectedReactor, ticks + 1)]
    /\ dashboardStats' = GenerateDashboardStats(reactors')
    /\ ticks' = ticks + 1
    /\ now' = now + 1
    /\ interval' = [interval EXCEPT !.elapsed = 0, !.sinceTick = 0]
    /\ UNCHANGED <<selectedReactor, isOptimizing, optimizationResult,
                   completionTimers, clearTimers, mounted, simulator, random>>

Tick == now < MaxClock /\ TickWith(TickDraws, MaxTicks)

-----------------------------------------------------------------------------
(* ReactorProvider: operations *)

FindReactor(rs, reactorId) == {i \in DOMAIN rs : rs[i].id = reactorId}

\* selectReactor(reactorId).  The state keeps the id of the selected reactor;
\* the effect's dependency is taken to change when the id does (selecting
\* again the id already selected is not counted as a change).
SelectReactor(reactorId) ==
    /\ now < MaxClock
    /\ selectedReactor' = IF FindReactor(reactors, reactorId) # {}
                          THEN <<reactorId>> ELSE << >>
    /\ interval' = EffectRun(interval, selectedReactor' # selectedReactor)
    /\ now' = now + 1
    /\ UNCHANGED <<reactors, isOptimizing, optimizationResult, completionTimers,
                   clearTimers, ticks, dashboardStats, mounted,
                   simulator, random>>

\* the parameter adjustments a caller may ask for: <<parameter, value>>
Adjustments ==
    {<<"temperature", 35800>>, <<"pH", 8000>>, <<"flowRate", 165000>>,
     <<"pressure", 1500>>}

\* the lists of recommended changes a caller may pass to applyOptimization
ChangeLists ==
    {<< >>,
     <<[parameter |-> "temperature", suggestedValue |-> 35800],
       [parameter |-> "pH", suggestedValue |-> 7350]>>}

\* a variant of AdjustConfig that writes the other target
AdjustConfigSwapped(config, parameter, value) ==
    IF parameter = "temperature" THEN [config EXCEPT !.targetPH = value]
    ELSE IF parameter = "pH" THEN [config EXCEPT !.targetTemperature = value]
    ELSE config

\* "Update target in config for controlled parameters"
AdjustConfig(config, parameter, value) ==
    IF parameter = "temperature" THEN [config EXCEPT !.targetTemperature = value]
    ELSE IF parameter = "pH" THEN [config EXCEPT !.targetPH = value]
    ELSE config

AdjustMetrics(metrics, parameter, value) ==
    IF parameter = "flowRate" THEN [metrics EXCEPT !.flowRate = value]
    ELSE metrics

\* a variant of PrependAlert that drops nothing
PrependAlertUncapped(alert, alerts) == <<alert>> \o alerts

\* [newAlert, ...alerts.slice(0, 4)]
PrependAlert(alert, alerts) == <<alert>> \o SliceFirst(alerts, AlertKeep)

\* a variant of AdjustReactor that does not look at the reactor's id
AdjustReactorAny(reactor, reactorId, parameter, value, time) ==
    [reactor EXCEPT
        !.config = AdjustConfig(reactor.config, parameter, value),
        !.currentMetrics = AdjustMetrics(reactor.currentMetrics, parameter, value),
        !.alerts = PrependAlert(
                       Alert(reactorId, "manual", "info", FALSE, parameter, value, time,
                             time),
                       reactor.alerts)]

\* the body of prevReactors.map in updateReactorParameter
AdjustReactor(reactor, reactorId, parameter, value, time) ==
    IF reactor.id # reactorId THEN reactor
    ELSE [reactor EXCEPT
            !.config = AdjustConfig(reactor.config, parameter, value),
            !.currentMetrics = AdjustMetrics(reactor.currentMetrics, parameter, value),
            !.alerts = PrependAlert(
                           Alert(reactorId, "manual", "info", FALSE, parameter, value, time,
                                 time),
                           reactor.alerts)]

\* updateReactorParameter(reactorId, parameter, value)
UpdateReactorParameter(reactorId, parameter, value) ==
    /\ now < MaxClock
    /\ reactors' = [i \in DOMAIN reactors |->
                       AdjustReactor(reactors[i], reactorId, parameter, value, now + 1)]
    /\ now' = now + 1
    /\ UNCHANGED <<selectedReactor, isOptimizing, optimizationResult,
                   completionTimers, clearTimers, ticks, dashboardStats, mounted,
                   simulator, interval, random>>

\* startOptimization(reactorId): the latch is set, then the completion is
\* scheduled when the reactor is found
StartOptimization(reactorId) ==
    /\ now < MaxClock
    /\ isOptimizing' = TRUE
    /\ IF FindReactor(reactors, reactorId) = {}
       THEN UNCHANGED completionTimers
       ELSE /\ Len(completionTimers) < MaxPending
            /\ completionTimers' = Append(completionTimers, [reactorId |-> reactorId])
    /\ interval' = EffectRun(interval, isOptimizing' # isOptimizing)
    /\ now' = now + 1
    /\ UNCHANGED <<reactors, selectedReactor, optimizationResult, clearTimers, ticks,
                   dashboardStats, mounted,
                   simulator, random>>

\* a variant of CompleteReactor that puts the alert at the end of the list
CompleteReactorAppend(reactor, reactorId, time) ==
    IF reactor.id # reactorId THEN reactor
    ELSE [reactor EXCEPT
            !.status = "running",
            !.alerts = Append(SliceFirst(reactor.alerts, AlertKeep),
                              Alert(reactorId, "opt", "success", FALSE, "none", 0, time, time))]

\* the body of prevReactors.map in the completion callback: "Add success alert"
CompleteReactor(reactor, reactorId, time) ==
    IF reactor.id # reactorId THEN reactor
    ELSE [reactor EXCEPT
            !.status = "running",
            !.alerts = PrependAlert(
                           Alert(reactorId, "opt", "success", FALSE, "none", 0, time, time),
                           reactor.alerts)]

OptimizationResult(reactorId, time) ==
    [reactorId |-> reactorId, timestamp |-> time, status |-> "completed",
     progress |-> 100, parametersAnalyzed |-> 14]

\* the setTimeout callback of startOptimization, 3.5 seconds after the call;
\* callbacks with the same delay fire in the order they were scheduled
CompleteOptimization ==
    /\ completionTimers # << >>
    /\ LET reactorId == Head(completionTimers).reactorId
       IN  /\ optimizationResult' = <<OptimizationResult(reactorId, now + 1)>>
           /\ reactors' = [i \in DOMAIN reactors |->
                              CompleteReactor(reactors[i], reactorId, now + 1)]
    /\ isOptimizing' = FALSE
    /\ completionTimers' = Tail(completionTimers)
    /\ interval' = EffectRun(interval, isOptimizing' # isOptimizing)
    /\ now' = now + 1
    /\ UNCHANGED <<selectedReactor, clearTimers, ticks, dashboardStats, mounted,
                   simulator, random>>

\* a variant of ApplyChanges that replays the first change only
ApplyChangesFirstOnly(reactor, reactorId, changes, time) ==
    IF changes = << >> THEN reactor
    ELSE AdjustReactor(reactor, reactorId, Head(changes).parameter,
                       Head(changes).suggestedValue, time)

\* changes.forEach(change => updateReactorParameter(...)) on one reactor; the
\* queued updaters run in one render pass
RECURSIVE ApplyChanges(_, _, _, _)
ApplyChanges(reactor, reactorId, changes, time) ==
    IF changes = << >> THEN reactor
    ELSE ApplyChanges(AdjustReactor(reactor, reactorId, Head(changes).parameter,
                                    Head(changes).suggestedValue, time),
                      reactorId, Tail(changes), time)

\* applyOptimization(reactorId, changes)
ApplyOptimization(reactorId, changes) ==
    /\ now < MaxClock
    /\ Len(clearTimers) < MaxClears
    /\ reactors' = [i \in DOMAIN reactors |->
                       ApplyChanges(reactors[i], reactorId, changes, now + 1)]
    /\ now' = now + 1
    /\ clearTimers' = Append(clearTimers,
                              [reactorId |-> reactorId, scheduled |-> now + 1])
    /\ UNCHANGED <<selectedReactor, isOptimizing, optimizationResult,
                   completionTimers, ticks, dashboardStats, mounted,
                   simulator, interval, random>>

\* the setTimeout callback of applyOptimization, 5 seconds after the call;
\* clearTimers remembers the reactorId of the call that scheduled it and the
\* time of the call
ClearOptimizationResult ==
    /\ clearTimers # << >>
    /\ optimizationResult' = << >>
    /\ clearTimers' = Tail(clearTimers)
    /\ now' = now + 1
    /\ UNCHANGED <<reactors, selectedReactor, isOptimizing, completionTimers, ticks,
                   dashboardStats, mounted,
                   simulator, interval, random>>

\* a variant of DismissOne that leaves the alert as it is
DismissOneNever(alert, alertId) == alert

\* a variant of DismissOne that toggles the flag
DismissOneToggle(alert, alertId) ==
    IF alert.id = alertId THEN [alert EXCEPT !.resolved = ~alert.resolved] ELSE alert

\* alert.id === alertId ? { ...alert, resolved: true } : alert
DismissOne(alert, alertId) ==
    IF alert.id = alertId THEN [alert EXCEPT !.resolved = TRUE] ELSE alert

\* the body of prevReactors.map in dismissAlert
DismissIn(reactor, reactorId, alertId) ==
    IF reactor.id # reactorId THEN reactor
    ELSE [reactor EXCEPT
            !.alerts = [k \in DOMAIN reactor.alerts |->
                           DismissOne(reactor.alerts[k], alertId)]]

\* the alert ids a caller may pass: those of the alerts held and one of no alert
AlertIds ==
    UNION {{reactors[i].alerts[k].id : k \in DOMAIN reactors[i].alerts} :
              i \in DOMAIN reactors}
        \cup {<<"RXN-001", "manual", -1>>}

\* dismissAlert(reactorId, alertId)
DismissAlert(reactorId, alertId) ==
    /\ now < MaxClock
    /\ reactors' = [i \in DOMAIN reactors |-> DismissIn(reactors[i], reactorId, alertId)]
    /\ now' = now + 1
    /\ UNCHANGED <<selectedReactor, isOptimizing, optimizationResult,
                   completionTimers, clearTimers, ticks, dashboardStats, mounted,
                   simulator, interval, random>>

\* a variant of RefreshIn that returns the fresh reactor as it is
RefreshInFresh(reactor, reactorId, time) ==
    IF reactor.id # reactorId THEN reactor
    ELSE CreateMockReactor(reactor.id, RefreshSeed, time)

\* the body of prevReactors.map in refreshReactor: { ...fresh, config: reactor.config }
RefreshIn(reactor, reactorId, time) ==
    IF reactor.id # reactorId THEN reactor
    ELSE [CreateMockReactor(reactor.id, RefreshSeed, time) EXCEPT
             !.config = reactor.config]

\* refreshReactor(reactorId)
RefreshReactor(reactorId) ==
    /\ now < MaxClock
    /\ reactors' = [i \in DOMAIN reactors |->
                       RefreshIn(reactors[i], reactorId, now + 1)]
    /\ now' = now + 1
    /\ UNCHANGED <<selectedReactor, isOptimizing, optimizationResult,
                   completionTimers, clearTimers, ticks, dashboardStats, mounted,
                   simulator, interval, random>>

\* simulator.update()
SimulatorUpdate ==
    /\ simulator.runningTime + simulator.startTime < MaxUpdates
    /\ \E g \in SimulatorDraws : simulator' = SimulatorStep(simulator, g)
    /\ UNCHANGED <<reactors, selectedReactor, isOptimizing, optimizationResult,
                   completionTimers, clearTimers, now, ticks, dashboardStats, mounted,
                   interval, random>>

\* simulator.adjustParameter(param, value)
SimulatorAdjust(param, value) ==
    /\ simulator' = SimulatorAdjusted(simulator, param, value)
    /\ UNCHANGED <<reactors, selectedReactor, isOptimizing, optimizationResult,
                   completionTimers, clearTimers, now, ticks, dashboardStats, mounted,
                   interval, random>>

\* random.range(min, max)
RandomRange ==
    /\ random.draws < MaxDraws
    /\ random' = RandomAfterRange(random)
    /\ UNCHANGED <<reactors, selectedReactor, isOptimizing, optimizationResult,
                   completionTimers, clearTimers, now, ticks, dashboardStats,
                   mounted, simulator, interval>>

\* random.gaussian(mean, stdDev)
RandomGaussian ==
    /\ random.draws + 1 < MaxDraws
    /\ random' = RandomAfterGaussian(random)
    /\ UNCHANGED <<reactors, selectedReactor, isOptimizing, optimizationResult,
                   completionTimers, clearTimers, now, ticks, dashboardStats,
                   mounted, simulator, interval>>

\* The provider is unmounted: the cleanup of the interval effect runs
\* (clearInterval).  The setTimeout handles of startOptimization and
\* applyOptimization are not kept, and no cleanup clears them: the pending
\* callbacks stay scheduled.
Unmount ==
    /\ mounted
    /\ now < MaxClock
    /\ mounted' = FALSE
    /\ interval' = [interval EXCEPT !.armed = interval.armed - 1]
    /\ now' = now + 1
    /\ UNCHANGED <<reactors, selectedReactor, isOptimizing, optimizationResult,
                   completionTimers, clearTimers, ticks, dashboardStats, simulator, random>>

\* One second passes with no handler running.  The armed interval fires when
\* its countdown reaches the period, so no more time passes before it does.
Elapse ==
    /\ mounted
    /\ interval.elapsed < Period
    /\ interval.sinceTick < MaxWait
    /\ interval' = [interval EXCEPT !.elapsed = interval.elapsed + 1,
                                    !.sinceTick = interval.sinceTick + 1]
    /\ UNCHANGED <<reactors, selectedReactor, isOptimizing, optimizationResult,
                   completionTimers, clearTimers, now, ticks, dashboardStats,
                   mounted, simulator, random>>

\* the interval callback at the moment its countdown ends
TickDue == interval.elapsed = Period /\ Tick

-----------------------------------------------------------------------------
(* Specification *)

Next ==
    \/ Tick
    \/ \E id \in CallIds : SelectReactor(id)
    \/ \E id \in CallIds, a \in Adjustments : UpdateReactorParameter(id, a[1], a[2])
    \/ \E id \in CallIds : StartOptimization(id)
    \/ CompleteOptimization
    \/ \E id \in CallIds, changes \in ChangeLists : ApplyOptimization(id, changes)
    \/ ClearOptimizationResult
    \/ \E id \in CallIds, alertId \in AlertIds : DismissAlert(id, alertId)
    \/ \E id \in CallIds : RefreshReactor(id)

Spec == Init /\ [][Next]_vars

\* Timer callbacks that are scheduled eventually fire; nothing is assumed of
\* the callers of the operations.
SpecLive ==
    /\ Init
    /\ [][Next]_vars
    /\ WF_vars(CompleteOptimization)
    /\ WF_vars(ClearOptimizationResult)

\* Teardown: the operations and the interval run while the provider is
\* mounted; the timer callbacks run when their delay elapses, mounted or not,
\* and call the state setters as they do before the unmount.
NextTeardown ==
    \/ mounted /\ Tick
    \/ mounted /\ \E id \in CallIds : StartOptimization(id)
    \/ mounted /\ \E id \in CallIds, changes \in ChangeLists :
                     ApplyOptimization(id, changes)
    \/ Unmount
    \/ CompleteOptimization
    \/ ClearOptimizationResult

SpecTeardown == Init /\ [][NextTeardown]_vars

\* Metric ranges: a simulator built from any of the seeds and stepped by
\* update, next to the provider's ticks; a flow rate adjustment below zero.
SimulatorSeeds == {SeedNominal, SeedBusy, SeedWorn}

RangeAdjustments == {<<"flowRate", -5000>>}

InitRanges ==
    /\ InitProvider
    /\ \E seed \in SimulatorSeeds : simulator = NewSimulator(seed)
    /\ random = NewRandom(MockSeed)

NextRanges ==
    \/ Tick
    \/ \E a \in RangeAdjustments : UpdateReactorParameter(ReactorIds[1], a[1], a[2])
    \/ SimulatorUpdate
    \/ \E a \in RangeAdjustments : SimulatorAdjust(a[1], a[2])

SpecRanges == InitRanges /\ [][NextRanges]_vars

\* Dashboard statistics over reactor lists of any length from 0 to
\* MaxReactors: the provider built on such a list, and its ticks.
AllSeeds == {SeedNominal, SeedWarning, SeedBusy, SeedWorn}

ReactorLists ==
    UNION {[1..n -> {CreateMockReactor(id, seed, 0) :
                        id \in ExistingIds, seed \in AllSeeds}] : n \in 0..MaxReactors}

InitStats ==
    /\ reactors \in ReactorLists
    /\ selectedReactor = << >>
    /\ isOptimizing = FALSE
    /\ optimizationResult = << >>
    /\ completionTimers = << >>
    /\ clearTimers = << >>
    /\ now = 0
    /\ ticks = 0
    /\ dashboardStats = GenerateDashboardStats(reactors)
    /\ mounted = TRUE
    /\ simulator = NewSimulator(SeedNominal)
    /\ interval = [armed |-> 1, elapsed |-> 0, sinceTick |-> 0]
    /\ random = NewRandom(MockSeed)

NextStats == Tick

SpecStats == InitStats /\ [][NextStats]_vars

\* The threshold scan on metrics at and next to each threshold: one reactor
\* built from each of the seeds, then ticks and refreshReactor.
BaseActivity ==
    CalculateActivity(SeedNominal.runningTime, DefaultConfig.targetTemperature,
                      DefaultConfig.targetPH, 0)

ScanSeeds ==
    {[SeedNominal EXCEPT !.gPH = p, !.gActivity = a - BaseActivity,
                         !.productYield = y, !.unstable = u] :
        p \in {-501, -500, -301, -300, 0, 300, 301, 500, 501},
        a \in {69999, 70000, 74999, 75000, 90000},
        y \in {82000, 82001},
        u \in BOOLEAN}

InitScan ==
    /\ \E seed \in ScanSeeds :
          reactors = <<CreateMockReactor(ReactorIds[1], seed, 0)>>
    /\ selectedReactor = << >>
    /\ isOptimizing = FALSE
    /\ optimizationResult = << >>
    /\ completionTimers = << >>
    /\ clearTimers = << >>
    /\ now = 0
    /\ ticks = 0
    /\ dashboardStats = GenerateDashboardStats(reactors)
    /\ mounted = TRUE
    /\ simulator = NewSimulator(SeedNominal)
    /\ interval = [armed |-> 1, elapsed |-> 0, sinceTick |-> 0]
    /\ random = NewRandom(MockSeed)

NextScan ==
    \/ Tick
    \/ \E id \in CallIds : RefreshReactor(id)

SpecScan == InitScan /\ [][NextScan]_vars

\* Retention of alerts: the first reactor is built with a pH warning and a
\* critical enzyme alert behind it (a seed far in the tail); alerts are then
\* prepended to its list by adjustments, applied recommendations and
\* optimization completions.
SeedSpent == [SeedWorn EXCEPT !.gPH = 350]

InitRetention ==
    /\ reactors = <<CreateMockReactor(ReactorIds[1], SeedSpent, 0),
                    CreateMockReactor(ReactorIds[2], SeedNominal, 0)>>
    /\ selectedReactor = << >>
    /\ isOptimizing = FALSE
    /\ optimizationResult = << >>
    /\ completionTimers = << >>
    /\ clearTimers = << >>
    /\ now = 0
    /\ ticks = 0
    /\ dashboardStats = GenerateDashboardStats(reactors)
    /\ mounted = TRUE
    /\ simulator = NewSimulator(SeedNominal)
    /\ interval = [armed |-> 1, elapsed |-> 0, sinceTick |-> 0]
    /\ random = NewRandom(MockSeed)

NextRetention ==
    \/ Tick
    \/ \E a \in Adjustments : UpdateReactorParameter(ReactorIds[1], a[1], a[2])
    \/ \E changes \in ChangeLists : ApplyOptimization(ReactorIds[1], changes)
    \/ ClearOptimizationResult
    \/ StartOptimization(ReactorIds[1])
    \/ CompleteOptimization

SpecRetention == InitRetention /\ [][NextRetention]_vars

\* The generator alone: every seed from 0 to MaxSeed, and the calls of range
\* and gaussian in any order.
InitRandom ==
    /\ InitProvider
    /\ simulator = NewSimulator(SeedNominal)
    /\ \E seed \in 0..MaxSeed : random = NewRandom(seed)

NextRandom ==
    \/ RandomRange
    \/ RandomGaussian

SpecRandom == InitRandom /\ [][NextRandom]_vars

\* Timing of the interval: seconds pass, the interval fires when its countdown
\* ends, and the operations that change the effect's dependencies run in
\* between.
NextInterval ==
    \/ Elapse
    \/ TickDue
    \/ \E id \in CallIds : SelectReactor(id)
    \/ \E id \in CallIds : StartOptimization(id)
    \/ CompleteOptimization

SpecInterval == Init /\ [][NextInterval]_vars

\* The history window over a long run: ticks alone (with the middle draw), and
\* refreshReactor while now < MaxClock.
TickQuiet == TickWith({DrawsMid}, MaxHistoryTicks)

NextHistory ==
    \/ TickQuiet
    \/ \E id \in CallIds : RefreshReactor(id)

SpecHistory == Init /\ [][NextHistory]_vars

\* Drift over a long run: the pH target is set to 8.0 early on, then ticks
\* (with the middle draw) drive the pH toward it.
NextDrift ==
    \/ TickQuiet
    \/ \E id \in CallIds : UpdateReactorParameter(id, "pH", 8000)

SpecDrift == Init /\ [][NextDrift]_vars

-----------------------------------------------------------------------------
(* Properties *)

\* the number of ticks a reactor has gone through since it was built
TicksSeen(reactor) == reactor.uptime - RefreshSeed.runningTime

\* C1: the history is a bounded FIFO window.  In every state a history holds
\* at most 288 points in chronological order; a reactor that has gone through
\* n ticks since it was built holds the points of its last min(n, 288) ticks at
\* the end, so after more than 288 ticks it holds exactly the 288 most recent
\* ticks and the oldest retained point is that of tick N - 287.
C1_HistoryWindow ==
    \A i \in DOMAIN reactors :
        LET h == reactors[i].history
            n == TicksSeen(reactors[i])
        IN  /\ Len(h) <= PointsCount
            /\ \A k \in 1..(Len(h) - 1) : h[k] < h[k + 1]
            /\ \A k \in 1..Len(h) :
                  k > Len(h) - n => h[k] = ticks - Len(h) + k
            /\ n >= PointsCount =>
                  /\ Len(h) = PointsCount
                  /\ h[1] = ticks - 287

C1_Witness ==
    /\ ticks > PointsCount
    /\ \E i \in DOMAIN reactors :
          /\ TicksSeen(reactors[i]) > PointsCount
          /\ reactors[i].history[1] = ticks - 287
          /\ reactors[i].history[PointsCount] = ticks

\* alerts that are created unresolved: by the threshold scan (pH, enzyme), by
\* updateReactorParameter and by the optimization completion
CreatedUnresolved(alert) == alert.id[2] \in {"ph", "enzyme", "manual", "opt"}

\* C2: dismissAlert(reactorId, alertId) on an unresolved alert sets its resolved
\* flag; dismissAlert on an alert that is already resolved changes nothing of
\* the provider's state (reactors, selection, latch, result, timers).
C2_DismissIdempotent ==
    [][\A id \in ExistingIds : \A alertId \in AlertIds :
          DismissAlert(id, alertId) =>
              \A i \in DOMAIN reactors :
                  reactors[i].id = id =>
                      /\ \A k \in DOMAIN reactors[i].alerts :
                            reactors[i].alerts[k].id = alertId =>
                                reactors'[i].alerts[k].resolved
                      /\ (\A k \in DOMAIN reactors[i].alerts :
                             reactors[i].alerts[k].id = alertId =>
                                 reactors[i].alerts[k].resolved)
                         => UNCHANGED <<reactors, selectedReactor, isOptimizing,
                                        optimizationResult, completionTimers,
                                        clearTimers, ticks, dashboardStats,
                                        mounted, simulator, interval, random>>]_vars

C2_Witness ==
    \E i \in DOMAIN reactors : \E k \in DOMAIN reactors[i].alerts :
        /\ CreatedUnresolved(reactors[i].alerts[k])
        /\ reactors[i].alerts[k].resolved

\* C3: resolution is one-way.  Over every step, an alert that is resolved in a
\* reactor's list is resolved wherever it is still in that list afterwards.
C3_ResolvedStaysResolved ==
    [][\A i \in DOMAIN reactors : \A k \in DOMAIN reactors[i].alerts :
          reactors[i].alerts[k].resolved =>
              \A j \in DOMAIN reactors'[i].alerts :
                  reactors'[i].alerts[j].id = reactors[i].alerts[k].id =>
                      reactors'[i].alerts[j].resolved]_vars

\* a resolved alert that was created unresolved, with a newer alert in front of it
C3_Witness ==
    \E i \in DOMAIN reactors : \E k \in DOMAIN reactors[i].alerts :
        /\ k > 1
        /\ CreatedUnresolved(reactors[i].alerts[k])
        /\ reactors[i].alerts[k].resolved
        /\ reactors[i].alerts[1].timestamp > reactors[i].alerts[k].timestamp

\* alerts prepended by updateReactorParameter and by the optimization completion
Prepended(alert) == alert.id[2] \in {"manual", "opt"}

\* the position of an alert's rule in the threshold scan
RuleOrder(alert) ==
    CASE alert.id[2] = "ph" -> 1
      [] alert.id[2] = "enzyme" -> 2
      [] alert.id[2] = "temp" -> 3
      [] alert.id[2] = "success" -> 4
      [] OTHER -> 0

OptimizationInProgressFor(reactorId) ==
    /\ isOptimizing
    /\ \E t \in DOMAIN completionTimers : completionTimers[t].reactorId = reactorId

SpecifiedStatus(reactor, inProgress) ==
    IF reactor.currentMetrics.enzymeActivity < 70000 THEN "maintenance"
    ELSE IF HasUnresolvedCritical(reactor.alerts) THEN "error"
    ELSE IF inProgress THEN "optimizing"
    ELSE "running"

\* C5: after every tick each reactor's status follows the priority order
\* maintenance, error, optimizing (for the reactor being optimized), running.
C5_StatusAfterTick ==
    [][Tick =>
          \A i \in DOMAIN reactors :
              reactors'[i].status =
                  SpecifiedStatus(reactors'[i],
                                  OptimizationInProgressFor(reactors[i].id))]_vars

\* C6: two completion callbacks are never pending together.
C6_SingleCompletionPending == Len(completionTimers) <= 1

\* C7: when the completion callback of startOptimization(R) fires, the result
\* is set for R with status completed, the latch is released, and exactly one
\* new unresolved success alert is at the head of R's alert list.
C7_CompletionEffect ==
    [][CompleteOptimization =>
          LET R == Head(completionTimers).reactorId
          IN  /\ Len(optimizationResult') = 1
              /\ optimizationResult'[1].reactorId = R
              /\ optimizationResult'[1].status = "completed"
              /\ ~isOptimizing'
              /\ \A i \in DOMAIN reactors :
                    reactors[i].id = R =>
                        /\ reactors'[i].alerts[1].type = "success"
                        /\ ~reactors'[i].alerts[1].resolved
                        /\ reactors'[i].alerts[1].id \notin
                               {reactors[i].alerts[k].id : k \in DOMAIN reactors[i].alerts}
                        /\ Tail(reactors'[i].alerts) = SliceFirst(reactors[i].alerts, 4)]_vars

C7_Witness ==
    /\ optimizationResult # << >>
    /\ ~isOptimizing
    /\ \E i \in DOMAIN reactors :
          /\ reactors[i].id = optimizationResult[1].reactorId
          /\ Len(reactors[i].alerts) >= 2
          /\ reactors[i].alerts[1].id[2] = "opt"
          /\ reactors[i].alerts[1].type = "success"
          /\ ~reactors[i].alerts[1].resolved

\* C8: the latch is true only while a completion callback is pending (so that
\* it is released when the pending callbacks have fired).
C8_LatchOnlyWhilePending == isOptimizing => completionTimers # << >>

\* C9: updateReactorParameter on an existing reactor sets the temperature
\* target, the pH target or the flow rate to the value; the call leaves the
\* temperature and pH metrics as they are, and a tick (a step that advances
\* `ticks') moves each of them by the drift toward its target (2 % and 1 % of
\* the error) up to the noise.
C9_AdjustSetsTarget ==
    [][/\ \A id \in ExistingIds : \A a \in Adjustments :
             UpdateReactorParameter(id, a[1], a[2]) =>
                 \A i \in DOMAIN reactors :
                     reactors[i].id = id =>
                         /\ a[1] = "temperature" =>
                                reactors'[i].config.targetTemperature = a[2]
                         /\ a[1] = "pH" => reactors'[i].config.targetPH = a[2]
                         /\ a[1] = "flowRate" =>
                                reactors'[i].currentMetrics.flowRate = a[2]
                         /\ reactors'[i].currentMetrics.temperature =
                                reactors[i].currentMetrics.temperature
                         /\ reactors'[i].currentMetrics.pH = reactors[i].currentMetrics.pH
       /\ ticks' # ticks =>
             \A i \in DOMAIN reactors :
                 LET m == reactors[i].currentMetrics
                     c == reactors[i].config
                     m2 == reactors'[i].currentMetrics
                 IN  /\ Abs(m2.temperature - m.temperature
                                - MulDiv(c.targetTemperature - m.temperature, 2, 100)) <= 50
                     /\ Abs(m2.pH - m.pH - MulDiv(c.targetPH - m.pH, 1, 100)) <= 15]_vars

\* each kind of adjustment has been made and none has moved the metrics
C9_Witness ==
    \E i \in DOMAIN reactors :
        /\ reactors[i].config.targetTemperature = 35800
        /\ reactors[i].config.targetPH = 8000
        /\ reactors[i].currentMetrics.flowRate = 165000
        /\ reactors[i].currentMetrics.temperature # 35800
        /\ reactors[i].currentMetrics.pH # 8000

\* C10: an adjustment of a parameter other than temperature, pH and flowRate
\* leaves the reactor's config, metrics and alert list as they were.
C10_UnknownParameterNoOp ==
    [][\A id \in ExistingIds :
          UpdateReactorParameter(id, "pressure", 1500) =>
              \A i \in DOMAIN reactors :
                  /\ reactors'[i].config = reactors[i].config
                  /\ reactors'[i].currentMetrics = reactors[i].currentMetrics
                  /\ reactors'[i].alerts = reactors[i].alerts]_vars

\* C11: a reactor's config changes only through parameter adjustment.  A tick,
\* selectReactor, dismissAlert, startOptimization, its completion, the clearing
\* of the result and refreshReactor leave every reactor's config as it was;
\* refreshReactor on an existing reactor replaces its metrics, history, alerts
\* and predictions by freshly generated ones.  (First part: over every step,
\* either every config is unchanged or the step is none of these operations.)
C11_ConfigFrame ==
    [][/\ \/ \A i \in DOMAIN reactors : reactors'[i].config = reactors[i].config
          \/ ~(\/ Tick
               \/ \E id \in CallIds : SelectReactor(id)
               \/ \E id \in CallIds : \E alertId \in AlertIds : DismissAlert(id, alertId)
               \/ \E id \in CallIds : StartOptimization(id)
               \/ CompleteOptimization
               \/ ClearOptimizationResult
               \/ \E id \in CallIds : RefreshReactor(id))
       /\ \A id \in ExistingIds :
             RefreshReactor(id) =>
                 \A i \in DOMAIN reactors :
                     reactors[i].id = id =>
                         LET fresh == reactors'[i]
                         IN  /\ fresh.currentMetrics = InitialMetrics(RefreshSeed)
                             /\ fresh.history = GenerateHistoricalData
                             /\ \A k \in DOMAIN fresh.alerts :
                                   fresh.alerts[k].id[3] = now'
                             /\ fresh.predictions.yieldOptimization.currentYield =
                                    fresh.currentMetrics.productYield
                             /\ fresh.uptime = RefreshSeed.runningTime]_vars

\* a reactor whose config was adjusted has been refreshed and keeps the config
C11_Witness ==
    \E i \in DOMAIN reactors :
        /\ reactors[i].config # DefaultConfig
        /\ reactors[i].alerts # << >>
        /\ reactors[i].alerts[1].id[2] = "ph"
        /\ reactors[i].alerts[1].id[3] > 0
        /\ reactors[i].currentMetrics = InitialMetrics(RefreshSeed)

\* the state a call with an unknown reactor id is to leave alone
Untouched == UNCHANGED <<reactors, isOptimizing, optimizationResult>>

\* C12: updateReactorParameter, dismissAlert, refreshReactor and
\* applyOptimization called with a reactor id that matches no reactor leave
\* reactors, isOptimizing and optimizationResult unchanged, and so does the
\* callback that such a call of applyOptimization schedules.
C12_UnknownIdNoOp ==
    [][\A id \in CallIds \ ExistingIds :
          /\ \A a \in Adjustments :
                UpdateReactorParameter(id, a[1], a[2]) => Untouched
          /\ \A alertId \in AlertIds : DismissAlert(id, alertId) => Untouched
          /\ RefreshReactor(id) => Untouched
          /\ \A changes \in ChangeLists : ApplyOptimization(id, changes) => Untouched
          /\ (ClearOptimizationResult /\ Head(clearTimers).reactorId = id)
                => Untouched]_vars

\* C13: applyOptimization(reactorId, changes) on an existing reactor has the
\* effect of updateReactorParameter for each change in list order: afterwards
\* the target (or the flow rate) of every change equals its suggested value,
\* one unresolved info alert per change is at the front of the alert list, the
\* alert of the last change first, followed by the alerts the list held before,
\* and the list holds at most 5 alerts.
C13_ApplyReplaysChanges ==
    [][\A id \in ExistingIds : \A changes \in ChangeLists :
          ApplyOptimization(id, changes) =>
              \A i \in DOMAIN reactors :
                  reactors[i].id = id =>
                      LET n == Len(changes)
                          after == reactors'[i]
                      IN  /\ \A c \in DOMAIN changes :
                                /\ changes[c].parameter = "temperature" =>
                                       after.config.targetTemperature =
                                           changes[c].suggestedValue
                                /\ changes[c].parameter = "pH" =>
                                       after.config.targetPH = changes[c].suggestedValue
                                /\ changes[c].parameter = "flowRate" =>
                                       after.currentMetrics.flowRate =
                                           changes[c].suggestedValue
                          /\ Len(after.alerts) = Min(5, n + Len(reactors[i].alerts))
                          /\ \A j \in 1..n :
                                /\ after.alerts[j].type = "info"
                                /\ ~after.alerts[j].resolved
                                /\ after.alerts[j].parameter = changes[n + 1 - j].parameter
                                /\ after.alerts[j].value = changes[n + 1 - j].suggestedValue
                          /\ SubSeq(after.alerts, n + 1, Len(after.alerts)) =
                                 SliceFirst(reactors[i].alerts, 5 - n)]_vars

\* two changes have been replayed on a reactor whose list was full: the alert
\* of the second change is in front of the alert of the first
C13_Witness ==
    \E i \in DOMAIN reactors :
        /\ Len(reactors[i].alerts) = 5
        /\ reactors[i].alerts[1].parameter = "pH"
        /\ reactors[i].alerts[1].value = 7350
        /\ reactors[i].alerts[2].parameter = "temperature"
        /\ reactors[i].alerts[2].id = reactors[i].alerts[1].id
        /\ reactors[i].config.targetTemperature = 35800
        /\ reactors[i].config.targetPH = 7350

\* C14: every optimization result that is set is eventually cleared
\* (optimizationResult returns to null), provided the scheduled timer
\* callbacks eventually fire.
C14_ResultEventuallyCleared ==
    (optimizationResult # << >>) ~> (optimizationResult = << >>)

\* C15: a completion callback or a result-clear callback that is pending when
\* the provider is unmounted is suppressed: no step taken after the unmount
\* writes reactors, isOptimizing or optimizationResult.
C15_NoWriteAfterUnmount ==
    [][~mounted => UNCHANGED <<reactors, isOptimizing, optimizationResult>>]_vars

\* C16: whenever a reactor's pH deviates from 7.4 by more than 0.5, an alert
\* of type critical with parameter pH is in that reactor's alert list.
C16_CriticalPHAlert ==
    \A i \in DOMAIN reactors :
        Abs(reactors[i].currentMetrics.pH - 7400) > 500 =>
            \E k \in DOMAIN reactors[i].alerts :
                /\ reactors[i].alerts[k].type = "critical"
                /\ reactors[i].alerts[k].parameter = "pH"

\* C17: after every tick the three sub-predictions of each reactor are those
\* computed from that tick's metrics; in particular
\* predictions.yieldOptimization.currentYield is the post-tick productYield.
C17_PredictionsRecomputed ==
    [][Tick =>
          \A i \in DOMAIN reactors :
              LET after == reactors'[i]
              IN  /\ after.predictions.enzymeDeactivation.hoursRemaining =
                         HoursRemaining(after.currentMetrics.enzymeActivity)
                  /\ after.predictions.yieldOptimization =
                         YieldOptimization(after.currentMetrics)
                  /\ after.predictions.anomalyDetection =
                         AnomalyDetection(after.currentMetrics)
                  /\ after.predictions.yieldOptimization.currentYield =
                         after.currentMetrics.productYield]_vars

\* a floating point value is finite and within [lo, hi]
Within(x, lo, hi) == x.kind = "finite" /\ lo <= x.v /\ x.v <= hi

\* C18: after every tick of the dashboard and after every update of the
\* simulator, whatever the noise, enzymeActivity and productYield are in
\* [0, 100], dissolvedOxygen is in its clamp range ([75, 100] in the dashboard
\* tick, [70, 100] in the simulator), flowRate >= 0 and
\* substrateConcentration >= 5.
C18_MetricRanges ==
    [][/\ Tick =>
             \A i \in DOMAIN reactors :
                 LET m == reactors'[i].currentMetrics
                 IN  /\ 0 <= m.enzymeActivity /\ m.enzymeActivity <= 100000
                     /\ 0 <= m.productYield /\ m.productYield <= 100000
                     /\ 75000 <= m.dissolvedOxygen /\ m.dissolvedOxygen <= 100000
                     /\ m.flowRate >= 0
                     /\ m.substrateConcentration >= 5000
       /\ SimulatorUpdate =>
             LET m == simulator'.metrics
             IN  /\ Within(m.enzymeActivity, 0, 100000)
                 /\ Within(m.productYield, 0, 100000)
                 /\ 70000 <= m.dissolvedOxygen /\ m.dissolvedOxygen <= 100000
                 /\ m.flowRate >= 0
                 /\ m.substrateConcentration.kind # "NaN"
                 /\ XLeq(Finite(5000), m.substrateConcentration)]_vars

\* C19: in every state currentMetrics.flowRate >= 0, in the provider's
\* reactors and in the simulator, whatever the parameter adjustments made.
C19_FlowRateNonNegative ==
    /\ \A i \in DOMAIN reactors : reactors[i].currentMetrics.flowRate >= 0
    /\ simulator.metrics.flowRate >= 0

\* C20: generateDashboardStats on an empty reactor list returns 0 for every
\* statistic; no field is NaN.
C20_EmptyStatsAreZero ==
    reactors = << >> =>
        /\ dashboardStats.totalReactors = 0
        /\ dashboardStats.activeReactors = 0
        /\ dashboardStats.averageYield = Finite(0)
        /\ dashboardStats.totalAlerts = 0
        /\ dashboardStats.criticalAlerts = 0
        /\ dashboardStats.systemHealth = Finite(0)
        /\ dashboardStats.dailyProduction = 0
        /\ dashboardStats.uptime = Finite(0)

\* C21: after every tick dashboardStats is the aggregate of the post-tick
\* reactors: activeReactors counts the reactors whose status is running or
\* optimizing, totalAlerts is the sum of the alert-list lengths, criticalAlerts
\* counts the unresolved critical alerts, dailyProduction sums yield x 0.5 over
\* the reactors whose status is running, uptime = activeReactors /
\* totalReactors x 100; hence activeReactors <= totalReactors, criticalAlerts
\* <= totalAlerts and 0 <= uptime <= 100.
C21_StatsAfterTick ==
    [][ticks' # ticks =>
          LET rs == reactors'
              stats == dashboardStats'
              active == {i \in DOMAIN rs : rs[i].status \in {"running", "optimizing"}}
              running == {i \in DOMAIN rs : rs[i].status = "running"}
              critical == {<<i, k>> \in (DOMAIN rs) \X (1..AlertCap) :
                              /\ k <= Len(rs[i].alerts)
                              /\ rs[i].alerts[k].type = "critical"
                              /\ ~rs[i].alerts[k].resolved}
          IN  /\ stats.totalReactors = Len(rs)
              /\ stats.activeReactors = Cardinality(active)
              /\ stats.totalAlerts = Sum([i \in DOMAIN rs |-> Len(rs[i].alerts)])
              /\ stats.criticalAlerts = Cardinality(critical)
              /\ stats.dailyProduction =
                     Sum([i \in DOMAIN rs |->
                             IF i \in running
                             THEN rs[i].currentMetrics.productYield \div 2 ELSE 0])
              /\ stats.uptime =
                     Finite((stats.activeReactors * 100000) \div stats.totalReactors)
              /\ stats.activeReactors <= stats.totalReactors
              /\ stats.criticalAlerts <= stats.totalAlerts
              /\ Within(stats.uptime, 0, 100000)]_vars

\* after a tick: a reactor is out of service, another is running and counted
\* in the production, and an unresolved critical alert is counted
C21_Witness ==
    /\ ticks > 0
    /\ dashboardStats = GenerateDashboardStats(reactors)
    /\ dashboardStats.activeReactors > 0
    /\ dashboardStats.activeReactors < dashboardStats.totalReactors
    /\ dashboardStats.criticalAlerts > 0
    /\ dashboardStats.criticalAlerts < dashboardStats.totalAlerts
    /\ dashboardStats.dailyProduction > 0

\* C22: while the provider is mounted exactly one tick interval is armed,
\* across every change of isOptimizing and selectedReactor, and each firing
\* advances every reactor exactly once in one step: every reactor's history
\* receives one new point (that of the firing) behind the last 287 points it
\* held, and every reactor's uptime advances by one tick.
C22_OneIntervalOneBatch ==
    /\ [](mounted => interval.armed = 1)
    /\ [][ticks' # ticks =>
             \A i \in DOMAIN reactors :
                 /\ reactors'[i].history =
                        SliceLast(reactors[i].history, 287) \o <<ticks'>>
                 /\ reactors'[i].uptime = reactors[i].uptime + 1]_vars

\* both dependencies of the effect have changed and a tick has fired since:
\* the histories of all reactors end with the point of that tick
C22_Witness ==
    /\ mounted
    /\ isOptimizing
    /\ selectedReactor # << >>
    /\ interval.armed = 1
    /\ ticks > 0
    /\ \A i \in DOMAIN reactors :
          reactors[i].history[Len(reactors[i].history)] = ticks

\* C29: the time from one tick to the next (and from the mount to the first
\* tick) never exceeds one period, whatever selectReactor calls,
\* startOptimization calls and optimization completions happen in between.
C29_TickWithinPeriod == interval.sinceTick <= Period

\* C23: gaussian never takes the logarithm of zero: whatever the seed and the
\* draws made before, the value next() returns as u1 inside gaussian is not 0.
C23_GaussianNeverLogsZero == random.u1 # <<0>>

\* C24: the threshold scan emits a pH alert exactly when |pH - 7.4| > 0.3, of
\* type critical if the deviation is > 0.5 and warning otherwise, and an enzyme
\* alert exactly when enzymeActivity < 75, of type critical if it is < 70 and
\* warning otherwise, both unresolved; the info (temperature) and the success
\* (yield > 82) alerts are created resolved.  Stated of every reactor as
\* createMockReactor returns it (no tick seen yet).
C24_ThresholdScan ==
    \A i \in DOMAIN reactors :
        TicksSeen(reactors[i]) = 0 =>
            LET m == reactors[i].currentMetrics
                alerts == reactors[i].alerts
                ph == {k \in DOMAIN alerts : alerts[k].parameter = "pH"}
                enzyme == {k \in DOMAIN alerts : alerts[k].parameter = "enzymeActivity"}
                success == {k \in DOMAIN alerts : alerts[k].type = "success"}
                deviation == IF m.pH >= 7400 THEN m.pH - 7400 ELSE 7400 - m.pH
            IN  /\ Cardinality(ph) = IF deviation > 300 THEN 1 ELSE 0
                /\ \A k \in ph :
                      /\ alerts[k].type = IF deviation > 500 THEN "critical" ELSE "warning"
                      /\ ~alerts[k].resolved
                /\ Cardinality(enzyme) = IF m.enzymeActivity < 75000 THEN 1 ELSE 0
                /\ \A k \in enzyme :
                      /\ alerts[k].type = IF m.enzymeActivity < 70000
                                          THEN "critical" ELSE "warning"
                      /\ ~alerts[k].resolved
                /\ Cardinality(success) = IF m.productYield > 82000 THEN 1 ELSE 0
                /\ \A k \in DOMAIN alerts :
                      alerts[k].type \in {"info", "success"} => alerts[k].resolved

\* a reactor as built, at the thresholds: pH off by exactly 0.5 (a warning),
\* enzyme activity just under 70 (critical), yield just over 82, the
\* temperature rule fired
C24_Witness ==
    \E i \in DOMAIN reactors :
        /\ TicksSeen(reactors[i]) = 0
        /\ reactors[i].currentMetrics.pH = 7900
        /\ reactors[i].currentMetrics.enzymeActivity = 69999
        /\ Len(reactors[i].alerts) = 4
        /\ reactors[i].alerts[1].type = "warning"
        /\ reactors[i].alerts[2].type = "critical"
        /\ reactors[i].alerts[3].resolved
        /\ reactors[i].alerts[4].type = "success"

C26_DistinctAlertIds ==
    \A i \in DOMAIN reactors :
        \A k \in DOMAIN reactors[i].alerts : \A j \in DOMAIN reactors[i].alerts :
            k # j => reactors[i].alerts[k].id # reactors[i].alerts[j].id

C28_ClearOnlyDisplayedResult ==
    [][ClearOptimizationResult =>
          \/ optimizationResult = << >>
          \/ optimizationResult[1].timestamp <= Head(clearTimers).scheduled]_vars

\* what the isolation of reactors speaks of
Isolated(before, after) ==
    /\ after.config = before.config
    /\ after.currentMetrics = before.currentMetrics
    /\ after.history = before.history
    /\ after.alerts = before.alerts
    /\ after.predictions = before.predictions
    /\ after.status = before.status

\* C30: updateReactorParameter, dismissAlert, refreshReactor and the
\* optimization completion for reactor A leave the config, currentMetrics,
\* history, alerts, predictions and status of every other reactor unchanged:
\* over every step and for every id A, either every reactor other than A is
\* unchanged in these fields, or the step is none of these operations for A.
C30_OtherReactorsUnchanged ==
    [][\A A \in CallIds :
          \/ \A i \in DOMAIN reactors :
                reactors[i].id # A => Isolated(reactors[i], reactors'[i])
          \/ ~(\/ \E a \in Adjustments : UpdateReactorParameter(A, a[1], a[2])
               \/ \E alertId \in AlertIds : DismissAlert(A, alertId)
               \/ RefreshReactor(A)
               \/ CompleteOptimization /\ Head(completionTimers).reactorId = A)]_vars

\* reactor RXN-001 has been adjusted, has completed an optimization and has
\* had an alert dismissed, and RXN-002 is as it was built
C30_Witness ==
    /\ reactors[1].config # DefaultConfig
    /\ Len(reactors[1].alerts) >= 2
    /\ \E k \in DOMAIN reactors[1].alerts : reactors[1].alerts[k].id[2] = "opt"
    /\ \E k \in DOMAIN reactors[1].alerts :
          /\ reactors[1].alerts[k].id[2] = "manual"
          /\ reactors[1].alerts[k].resolved
    /\ \E seeds \in MockSeeds :
          reactors[2] = CreateMockReactor(ReactorIds[2], seeds[2], 0)

=============================================================================
